---- MODULE Spec2Model ----
(***************************************************************************)
(* Timeline Monitor (greensky00/timeline_monitor).                         *)
(*                                                                         *)
(* The model follows the header that issues ids from a per-Timeline        *)
(* counter (Timeline::issueId, Timeline::getDepth), which is the header    *)
(* the tests are written against.  Timeline, TimelineElem and              *)
(* TimelineMonitor are records; their methods are operators that take the  *)
(* object (T, M) and the value of the system clock (now) as arguments and  *)
(* return the updated object(s).                                           *)
(*                                                                         *)
(* Four programs are modelled:                                             *)
(*   SpecApi       any client of the TimelineMonitor class                 *)
(*   SpecHier      hierarchical_test / multi_thread_test                   *)
(*   SpecMid       export_in_the_middle_test                               *)
(*   SpecTransfer  thread_transfer_test                                    *)
(***************************************************************************)
EXTENDS Integers, Sequences, FiniteSets, TLC

-----------------------------------------------------------------------------
(* Bounds *)

\* number of worker threads (multi_thread_test spawns 8)
NumThreads == 2
\* inner blocks per func_1 call range over 0..MaxA (the tests use A = 5)
MaxA == 2
\* func_1 calls per func_2 call range over 0..MaxB (the tests use B = 10)
MaxB == 2
\* iterations of the worker loop of multi_thread_test (timer driven there)
MaxRounds == 2
\* number k of hand-off threads of thread_transfer_test (the test has 11)
NumHandoff == 3
\* number of func_2 calls in the export-in-the-middle program (the test has 2)
MaxChains == 3
\* monitors a client of the class creates in SpecApi
MaxMons == 3
\* Timeline objects a client of the class receives from exportTimeline
MaxCustom == 2

-----------------------------------------------------------------------------
(* TimelineElem *)

BEGIN == 0
END == 1

TimelineElem(n, t, i, d, now) ==
    [timelineName |-> n, type |-> t, id |-> i, depth |-> d, timestamp |-> now]

-----------------------------------------------------------------------------
(* Timeline *)

\* uint32_t arithmetic on lastDepth.  TLC integers are 32-bit signed, so a
\* uint32_t value v is held as its two's-complement representative: v itself
\* below 2^31 and v - 2^32 from there on; -1 is 4294967295, what --lastDepth
\* leaves when lastDepth is 0.
Inc32(d) == d + 1
Dec32(d) == d - 1

\* Timeline::Timeline()
Timeline == [eventIdCounter |-> 0, elems |-> <<>>, lastDepth |-> 0]

\* a Timeline variable that does not hold an object (yet)
NoTimeline == [none |-> TRUE]

\* variant: clear() re-initialises the whole object but the depth
clear_resetsCounter(T) == [Timeline EXCEPT !.lastDepth = T.lastDepth]

\* variant: clear() leaves the list alone
clear_keeps(T) == T

\* variant: clear() also sets the depth back to 0
clear_resetsDepth(T) == [T EXCEPT !.elems = <<>>, !.lastDepth = 0]

clear(T) == [T EXCEPT !.elems = <<>>]

\* variant: compares with elems.back() instead of *elems.begin()
clearIfNecessary_back(T, id) ==
    IF T.elems[Len(T.elems)].id = id THEN [T EXCEPT !.elems = <<>>] ELSE T

\* variant: the list is reset when the depth is back at 0, whatever the id
clearIfNecessary_atDepth0(T, id) ==
    IF T.lastDepth = 0 THEN [T EXCEPT !.elems = <<>>] ELSE T

\* variant: the reset rule never fires
clearIfNecessary_never(T, id) == T

clearIfNecessary(T, id) ==
    IF Head(T.elems).id = id THEN clear(T) ELSE T

\* variant: the Begin event records the depth after the increment
pushBegin_preInc(T, name, id, now) ==
    [T EXCEPT !.elems = Append(@, TimelineElem(name, BEGIN, id, Inc32(T.lastDepth), now)),
              !.lastDepth = Inc32(@)]

pushBegin(T, name, id, now) ==
    [T EXCEPT !.elems = Append(@, TimelineElem(name, BEGIN, id, T.lastDepth, now)),
              !.lastDepth = Inc32(@)]

\* variant: the End event records lastDepth - 1 but lastDepth keeps its value
push_back_end_noDec(T, name, id, now) ==
    [T EXCEPT !.elems = Append(@, TimelineElem(name, END, id, Dec32(T.lastDepth), now))]

\* elems.push_back( TimelineElem(name, END, id, --lastDepth) )
push_back_end(T, name, id, now) ==
    LET d == Dec32(T.lastDepth)
    IN  [T EXCEPT !.elems = Append(@, TimelineElem(name, END, id, d, now)),
                  !.lastDepth = d]

\* variant: pushEnd resets the list whatever the id
pushEnd_clearsAlways(T, name, id, now) == clear(push_back_end(T, name, id, now))

\* variant: pushEnd without the reset rule
pushEnd_noClear(T, name, id, now) == push_back_end(T, name, id, now)

pushEnd(T, name, id, now) ==
    clearIfNecessary(push_back_end(T, name, id, now), id)

\* variant: the copy is taken before the End event is appended
pushEndAndExport_copyFirst(T, name, id, now) ==
    [self |-> clearIfNecessary(push_back_end(T, name, id, now), id), ret |-> T]

\* variant: the copy does not take over the id counter of its source
pushEndAndExport_freshCounter(T, name, id, now) ==
    LET pushed == push_back_end(T, name, id, now)
    IN  [self |-> clearIfNecessary(pushed, id),
         ret |-> [pushed EXCEPT !.eventIdCounter = 0]]

\* self: *this after the call, ret: the returned Timeline
pushEndAndExport(T, name, id, now) ==
    LET pushed == push_back_end(T, name, id, now)
    IN  [self |-> clearIfNecessary(pushed, id), ret |-> pushed]

getElems(T) == T.elems

getDepth(T) == T.lastDepth

\* self: *this after the call, ret: the returned id
issueId(T) ==
    [self |-> [T EXCEPT !.eventIdCounter = @ + 1], ret |-> T.eventIdCounter]

-----------------------------------------------------------------------------
(* TimelineMonitor *)

\* names of Timeline variables: the thread_local thread_events of a thread,
\* the local variable `ret` of a thread's test function, and the Timeline
\* objects a client obtained from exportTimeline
Procs == 0 .. (IF NumThreads > NumHandoff THEN NumThreads ELSE NumHandoff)
Slots == 1 .. MaxCustom
TlIds == ({"tls"} \X Procs) \cup ({"ret"} \X Procs) \cup ({"cust"} \X Slots)

\* variant: thread_events is one object for all threads (not thread_local)
thread_events_shared(t) == <<"tls", 1>>

\* static thread_local Timeline thread_events, as seen by thread t
thread_events(t) == <<"tls", t>>

NoMon == [none |-> TRUE]

\* Member initialisers of both constructors: timelineRef, myName,
\* myId(timelineRef.issueId()), done(false).
\* mon: the monitor, tl: the bound timeline after issueId
MonitorInit(ref, T, name) ==
    LET i == issueId(T)
    IN  [mon |-> [timelineRef |-> ref, myName |-> name, myId |-> i.ret,
                  done |-> FALSE],
         tl  |-> i.self]

\* Body of both constructors: timelineRef.pushBegin(myName, myId)
MonitorBody(M, T, now) == pushBegin(T, M.myName, M.myId, now)

\* variant: the monitor is bound to the first thread's thread-local timeline
\* whatever timeline it is given
TimelineMonitorCustom_bindsDefault(ref, T, name, now) ==
    LET c == MonitorInit(<<"tls", 1>>, T, name)
    IN  [mon |-> c.mon, tl |-> MonitorBody(c.mon, c.tl, now)]

\* TimelineMonitor(Timeline& timeline, const char* name), T = the value of
\* the timeline that ref names
TimelineMonitorCustom(ref, T, name, now) ==
    LET c == MonitorInit(ref, T, name)
    IN  [mon |-> c.mon, tl |-> MonitorBody(c.mon, c.tl, now)]

\* variant: the destructor does not look at `done`
Destructor_noCheck(M, T, now) ==
    [mon |-> [M EXCEPT !.done = TRUE], tl |-> pushEnd(T, M.myName, M.myId, now)]

\* ~TimelineMonitor()
Destructor(M, T, now) ==
    IF ~M.done
    THEN [mon |-> [M EXCEPT !.done = TRUE], tl |-> pushEnd(T, M.myName, M.myId, now)]
    ELSE [mon |-> M, tl |-> T]

\* TimelineMonitor::exportTimeline()
exportTimeline(M, T, now) ==
    LET r == pushEndAndExport(T, M.myName, M.myId, now)
    IN  [mon |-> [M EXCEPT !.done = TRUE], tl |-> r.self, ret |-> r.ret]

-----------------------------------------------------------------------------
(* State *)

VARIABLES
    tl,         \* [TlIds -> Timeline]: every Timeline object of the program
    mon,        \* SpecApi: the TimelineMonitor objects of the client
    stack,      \* per thread: stack of the __auto_monitor objects in scope
    pc,         \* per thread: position in its function
    loc,        \* per thread: local variables of its function
    A,          \* inner blocks per func_1 call
    B,          \* func_1 calls per func_2 call
    ea,         \* EventAwaiter: TRUE once invoke() was called
    clock,      \* std::chrono::system_clock::now()
    lastOp,     \* history: the last TimelineMonitor operation and its operands
    hist,       \* history, per SpecApi monitor: lifetime, exports, End events
    issuedLog,  \* history, per Timeline: the values issueId returned
    writers     \* history, per Timeline: the threads that appended to it

vars == <<tl, mon, stack, pc, loc, A, B, ea, clock, lastOp, hist, issuedLog, writers>>

\* TimelineMonitor(const char* name) executed by thread t:
\* timelineRef(thread_events)
TimelineMonitor(t, name, now) ==
    TimelineMonitorCustom(thread_events(t), tl[thread_events(t)], name, now)

MonIds == 1 .. MaxMons

NoOp == [op |-> "none"]

\* m: the monitor before the operation, pre: its timeline before the
\* operation, ret: what the operation returned
Op(kind, p, m, pre, r) ==
    [op |-> kind, by |-> p, mon |-> m, pre |-> pre, ret |-> r]

InitCommon ==
    /\ tl = [x \in TlIds |-> IF x[1] = "tls" THEN Timeline ELSE NoTimeline]
    /\ mon = [m \in MonIds |-> NoMon]
    /\ stack = [p \in Procs |-> <<>>]
    /\ ea = FALSE
    /\ clock = 0
    /\ lastOp = NoOp
    /\ hist = [m \in MonIds |-> [st |-> "none", by |-> 0, on |-> <<"none", 0>>,
                             nexp |-> 0, nend |-> 0]]
    /\ issuedLog = [x \in TlIds |-> <<>>]
    /\ writers = [x \in TlIds |-> {}]

\* Effects of one TimelineMonitor operation by thread p on the Timeline
\* objects and on the history variables.

\* constructor of a monitor bound to timeline ref; r = its result
ConstructOn(p, ref, r) ==
    /\ tl' = [tl EXCEPT ![ref] = r.tl]
    /\ issuedLog' = [issuedLog EXCEPT ![ref] = Append(@, r.mon.myId)]
    /\ writers' = [writers EXCEPT ![ref] = @ \cup {p}]
    /\ lastOp' = Op("ctor", p, r.mon, tl[ref], NoTimeline)

\* destructor of monitor M; r = its result
DestroyOn(p, M, r) ==
    /\ tl' = [tl EXCEPT ![M.timelineRef] = r.tl]
    /\ writers' = [writers EXCEPT ![M.timelineRef] =
                      IF r.tl = tl[M.timelineRef] THEN @ ELSE @ \cup {p}]
    /\ lastOp' = Op("dtor", p, M, tl[M.timelineRef], NoTimeline)
    /\ UNCHANGED issuedLog

\* `Timeline dst = M.exportTimeline()`; r = the result of exportTimeline
ExportOn(p, M, dst, r) ==
    /\ tl' = [tl EXCEPT ![M.timelineRef] = r.tl, ![dst] = r.ret]
    /\ writers' = [writers EXCEPT ![M.timelineRef] = @ \cup {p},
                                  ![dst] = writers[M.timelineRef] \cup {p}]
    /\ issuedLog' = [issuedLog EXCEPT ![dst] = issuedLog[M.timelineRef]]
    /\ lastOp' = Op("export", p, M, tl[M.timelineRef], r.ret)

-----------------------------------------------------------------------------
(* SpecApi: a client that creates monitors on thread-local and on exported *)
(* timelines, exports from them and destroys them, in any order.  Each     *)
(* operation runs to completion before the next one starts.                *)

Threads == 1 .. NumThreads
Names == {"f"}

InitApi ==
    /\ InitCommon
    /\ pc = [p \in Procs |-> "api"]
    /\ loc = [p \in Procs |-> [ii |-> 0]]
    /\ A = 0
    /\ B = 0

\* TimelineMonitor m(name) executed by thread p
ApiCtor(p, m, name) ==
    /\ mon[m] = NoMon
    /\ hist[m].st = "none"
    /\ \A k \in 1 .. (m - 1) : hist[k].st # "none"
    /\ LET r == TimelineMonitor(p, name, clock)
       IN  /\ ConstructOn(p, r.mon.timelineRef, r)
           /\ mon' = [mon EXCEPT ![m] = r.mon]
    /\ hist' = [hist EXCEPT ![m].st = "live", ![m].by = p, ![m].on = <<"tls", p>>]
    /\ UNCHANGED <<stack, pc, loc, A, B, ea, clock>>

\* TimelineMonitor m(timeline, name) on an exported timeline, by thread p
ApiCtorCustom(p, m, s, name) ==
    /\ mon[m] = NoMon
    /\ hist[m].st = "none"
    /\ \A k \in 1 .. (m - 1) : hist[k].st # "none"
    /\ tl[<<"cust", s>>] # NoTimeline
    /\ LET ref == <<"cust", s>>
           r == TimelineMonitorCustom(ref, tl[ref], name, clock)
       IN  /\ ConstructOn(p, r.mon.timelineRef, r)
           /\ mon' = [mon EXCEPT ![m] = r.mon]
    /\ hist' = [hist EXCEPT ![m].st = "live", ![m].by = p, ![m].on = <<"cust", s>>]
    /\ UNCHANGED <<stack, pc, loc, A, B, ea, clock>>

\* m.~TimelineMonitor()
ApiDtor(m) ==
    /\ hist[m].st = "live"
    /\ LET M == mon[m]
           r == Destructor(M, tl[M.timelineRef], clock)
       IN  /\ DestroyOn(hist[m].by, M, r)
           /\ mon' = [mon EXCEPT ![m] = r.mon]
           /\ hist' = [hist EXCEPT ![m].st = "dead",
                          ![m].nend = IF r.tl = tl[M.timelineRef] THEN @ ELSE @ + 1]
    /\ UNCHANGED <<stack, pc, loc, A, B, ea, clock>>

\* Timeline s = m.exportTimeline()
ApiExport(m, s) ==
    /\ hist[m].st = "live"
    /\ tl[<<"cust", s>>] = NoTimeline
    /\ LET M == mon[m]
           r == exportTimeline(M, tl[M.timelineRef], clock)
       IN  /\ ExportOn(hist[m].by, M, <<"cust", s>>, r)
           /\ mon' = [mon EXCEPT ![m] = r.mon]
           /\ hist' = [hist EXCEPT ![m].nexp = @ + 1, ![m].nend = @ + 1]
    /\ UNCHANGED <<stack, pc, loc, A, B, ea, clock>>

NextApi ==
    \/ \E p \in Threads, m \in MonIds, n \in Names : ApiCtor(p, m, n)
    \/ \E p \in Threads, m \in MonIds, s \in Slots, n \in Names : ApiCtorCustom(p, m, s, n)
    \/ \E m \in MonIds : ApiDtor(m)
    \/ \E m \in MonIds, s \in Slots : ApiExport(m, s)

SpecApi == InitApi /\ [][NextApi]_vars

-----------------------------------------------------------------------------
(* Properties of the TimelineMonitor operations (SpecApi) *)

\* the timeline the last operation worked on, as it is now
OpTl == tl[lastOp.mon.timelineRef]

IsFinalizer(op) == op.op \in {"dtor", "export"}

\* positions of the Begin event with the given id
BeginPos(elems, id) ==
    {i \in 1 .. Len(elems) : elems[i].type = BEGIN /\ elems[i].id = id}

\* op is an exportTimeline call on a monitor whose Begin event is in its
\* timeline but not at the front
MidChainExport(op) ==
    /\ op.op = "export"
    /\ BeginPos(op.pre.elems, op.mon.myId) # {}
    /\ 1 \notin BeginPos(op.pre.elems, op.mon.myId)

FinalizesFirst(op) ==
    /\ IsFinalizer(op)
    /\ op.op = "dtor" => ~op.mon.done
    /\ op.pre.elems # <<>>
    /\ Head(op.pre.elems).type = BEGIN
    /\ Head(op.pre.elems).id = op.mon.myId

\* C3: when the monitor whose Begin event is the first element of its
\* timeline is finalized, by its destructor or by exportTimeline, the
\* timeline's event sequence is empty when the operation returns.
C3_OutermostFinalizeClears ==
    FinalizesFirst(lastOp) => OpTl.elems = <<>>

C3_Witness ==
    /\ FinalizesFirst(lastOp)
    /\ lastOp.op = "dtor"
    /\ Len(lastOp.pre.elems) >= 3

\* C5: a monitor on which exportTimeline was called once appends nothing
\* when it is destroyed; over its whole life its timeline received exactly
\* one End event with its id.
C5_NoSecondEndAfterExport ==
    /\ \A m \in MonIds :
          (hist[m].st = "dead" /\ hist[m].nexp = 1) => hist[m].nend = 1
    /\ (lastOp.op = "dtor" /\ lastOp.mon.done) => OpTl = lastOp.pre

C5_Witness ==
    /\ lastOp.op = "dtor"
    /\ lastOp.mon.done
    /\ \E m \in MonIds :
          /\ hist[m].st = "dead"
          /\ hist[m].nexp = 1
          /\ mon[m].myId = lastOp.mon.myId
          /\ mon[m].timelineRef = lastOp.mon.timelineRef

\* C6: an operation invoked on a monitor that is already finalized appends
\* no event to the bound timeline and leaves its nesting depth unchanged.
C6_FinalizedMonitorIsInert ==
    (IsFinalizer(lastOp) /\ lastOp.mon.done) =>
        /\ OpTl.elems = lastOp.pre.elems
        /\ OpTl.lastDepth = lastOp.pre.lastDepth

NoDup(s) == \A i, j \in 1 .. Len(s) : i # j => s[i] # s[j]

\* the ids of the Begin events of a sequence of events, in order
BeginIds(elems) ==
    LET F[i \in 0 .. Len(elems)] ==
            IF i = 0 THEN <<>>
            ELSE IF elems[i].type = BEGIN THEN Append(F[i - 1], elems[i].id)
            ELSE F[i - 1]
    IN  F[Len(elems)]

\* C10: issueId of a Timeline never returns a value it returned before (nor,
\* for an exported copy, one its source returned before the export), also
\* after the event sequence was reset; hence no two Begin events of a
\* timeline's event sequence carry the same id.
C10_IdsNeverReused ==
    \A x \in TlIds :
        /\ NoDup(issuedLog[x])
        /\ tl[x] # NoTimeline => NoDup(BeginIds(tl[x].elems))

C10_Witness ==
    /\ lastOp.op = "ctor"
    /\ lastOp.mon.timelineRef[1] = "cust"
    /\ Len(OpTl.elems) >= 3
    /\ \E p \in Threads :
          /\ tl[thread_events(p)].elems # <<>>
          /\ Head(tl[thread_events(p)].elems).id > 0

-----------------------------------------------------------------------------
(* Steps of a test function: the T_MONITOR_* macros act on __auto_monitor, *)
(* the monitor declared in the innermost enclosing scope, which is the top *)
(* of the thread's stack of monitors.                                      *)

Top(p) == stack[p][Len(stack[p])]

\* T_MONITOR_FUNC() / T_MONITOR_BLOCK(name)
MonitorEnter(p, name) ==
    LET r == TimelineMonitor(p, name, clock)
    IN  /\ ConstructOn(p, r.mon.timelineRef, r)
        /\ stack' = [stack EXCEPT ![p] = Append(@, r.mon)]

\* the end of the scope that declared __auto_monitor
MonitorLeave(p) ==
    LET M == Top(p)
        r == Destructor(M, tl[M.timelineRef], clock)
    IN  /\ DestroyOn(p, M, r)
        /\ stack' = [stack EXCEPT ![p] = SubSeq(@, 1, Len(@) - 1)]

\* dst = T_MONITOR_EXPORT()
MonitorExport(p, dst) ==
    LET M == Top(p)
        r == exportTimeline(M, tl[M.timelineRef], clock)
    IN  /\ ExportOn(p, M, dst, r)
        /\ stack' = [stack EXCEPT ![p][Len(stack[p])] = r.mon]

Goto(p, l) == pc' = [pc EXCEPT ![p] = l]

-----------------------------------------------------------------------------
(* SpecHier: hierarchical_test and multi_thread_test.  Every thread runs   *)
(* func_2 in a loop; func_2 calls func_1 B times, func_1 opens A blocks.   *)

FuncName == "operator()"
InnerName == "func_1_inner"

InitHier ==
    /\ InitCommon
    /\ pc = [p \in Procs |-> IF p \in Threads THEN "w_loop" ELSE "idle"]
    /\ loc = [p \in Procs |-> [ii |-> 0, jj |-> 0, calls |-> 0]]
    /\ A \in 0 .. MaxA
    /\ B \in 0 .. MaxB

\* t_worker: while (!tt.timeout()) { func_2(); ... }; the timer may expire
\* before any iteration
WorkerLoop(p) ==
    /\ pc[p] = "w_loop"
    /\ \/ /\ loc[p].calls < MaxRounds
          /\ Goto(p, "f2_ctor")
       \/ Goto(p, "w_done")
    /\ UNCHANGED <<tl, mon, stack, loc, A, B, ea, clock, lastOp, hist, issuedLog, writers>>

\* func_2: T_MONITOR_FUNC(); for (ii = 0; ...
Func2Enter(p) ==
    /\ pc[p] = "f2_ctor"
    /\ MonitorEnter(p, FuncName)
    /\ loc' = [loc EXCEPT ![p].jj = 0]
    /\ Goto(p, "f2_loop")
    /\ UNCHANGED <<mon, A, B, ea, clock, hist>>

\* func_2: ii < B
Func2Loop(p) ==
    /\ pc[p] = "f2_loop"
    /\ Goto(p, IF loc[p].jj < B THEN "f1_ctor" ELSE "f2_export")
    /\ UNCHANGED <<tl, mon, stack, loc, A, B, ea, clock, lastOp, hist, issuedLog, writers>>

\* func_1: T_MONITOR_FUNC(); for (ii = 0; ...
Func1Enter(p) ==
    /\ pc[p] = "f1_ctor"
    /\ MonitorEnter(p, FuncName)
    /\ loc' = [loc EXCEPT ![p].ii = 0]
    /\ Goto(p, "f1_loop")
    /\ UNCHANGED <<mon, A, B, ea, clock, hist>>

\* func_1: ii < A
Func1Loop(p) ==
    /\ pc[p] = "f1_loop"
    /\ Goto(p, IF loc[p].ii < A THEN "in_ctor" ELSE "f1_ret")
    /\ UNCHANGED <<tl, mon, stack, loc, A, B, ea, clock, lastOp, hist, issuedLog, writers>>

\* func_1: T_MONITOR_BLOCK("func_1_inner")
InnerEnter(p) ==
    /\ pc[p] = "in_ctor"
    /\ MonitorEnter(p, InnerName)
    /\ Goto(p, "in_dtor")
    /\ UNCHANGED <<mon, loc, A, B, ea, clock, hist>>

\* func_1: end of the loop body; ++ii
InnerLeave(p) ==
    /\ pc[p] = "in_dtor"
    /\ MonitorLeave(p)
    /\ loc' = [loc EXCEPT ![p].ii = @ + 1]
    /\ Goto(p, "f1_loop")
    /\ UNCHANGED <<mon, A, B, ea, clock, hist>>

\* func_1 returns; func_2: ++ii
Func1Leave(p) ==
    /\ pc[p] = "f1_ret"
    /\ MonitorLeave(p)
    /\ loc' = [loc EXCEPT ![p].jj = @ + 1]
    /\ Goto(p, "f2_loop")
    /\ UNCHANGED <<mon, A, B, ea, clock, hist>>

\* func_2: Timeline ret = T_MONITOR_EXPORT()
Func2Export(p) ==
    /\ pc[p] = "f2_export"
    /\ MonitorExport(p, <<"ret", p>>)
    /\ Goto(p, "f2_chk")
    /\ UNCHANGED <<mon, loc, A, B, ea, clock, hist>>

\* CHK_EQ( (1 + B + A * B) * 2, ret.getElems().size() );
\* CHK_EQ( 0, ret.getDepth() );
Func2Check(p) ==
    /\ pc[p] = "f2_chk"
    /\ Goto(p, "f2_ret")
    /\ UNCHANGED <<tl, mon, stack, loc, A, B, ea, clock, lastOp, hist, issuedLog, writers>>

\* func_2 returns: its monitor is destroyed; total_calls.fetch_add(1)
Func2Leave(p) ==
    /\ pc[p] = "f2_ret"
    /\ MonitorLeave(p)
    /\ loc' = [loc EXCEPT ![p].calls = @ + 1]
    /\ Goto(p, "w_loop")
    /\ UNCHANGED <<mon, A, B, ea, clock, hist>>

\* one step of thread p
HierStep(p) ==
    \/ WorkerLoop(p)
    \/ Func2Enter(p)
    \/ Func2Loop(p)
    \/ Func1Enter(p)
    \/ Func1Loop(p)
    \/ InnerEnter(p)
    \/ InnerLeave(p)
    \/ Func1Leave(p)
    \/ Func2Export(p)
    \/ Func2Check(p)
    \/ Func2Leave(p)

NextHier == \E p \in Threads : HierStep(p)

SpecHier == InitHier /\ [][NextHier]_vars

\* the number of events the nested-call pattern produces
Expected(a, b) == 2 * (1 + b + a * b)

\* C1: when a top-level scope opened on an empty thread-local timeline has
\* called B times a function scope that opens and closes A inner block
\* scopes, the timeline its exportTimeline returns holds exactly
\* 2*(1 + B + A*B) events and has nesting depth 0.
C1_NestedCallCount ==
    \A p \in Threads :
        pc[p] = "f2_chk" =>
            /\ Len(getElems(tl[<<"ret", p>>])) = Expected(A, B)
            /\ getDepth(tl[<<"ret", p>>]) = 0

C1_Witness ==
    /\ A >= 1
    /\ B >= 2
    /\ pc[1] = "f2_chk"
    /\ lastOp.op = "export"
    /\ lastOp.pre.elems # <<>>
    /\ Len(tl[<<"ret", 1>>].elems) >= 10

\* C7: with several threads running the nested-call pattern on their own
\* thread-local timelines, a thread's timeline is only ever appended to by
\* that thread, and every top-level export holds 2*(1 + B + A*B) events at
\* depth 0, whatever the other threads are doing.
C7_ThreadsDoNotInterfere ==
    \A p \in Threads :
        /\ writers[<<"tls", p>>] \subseteq {p}
        /\ pc[p] = "f2_chk" =>
              /\ writers[<<"ret", p>>] = {p}
              /\ Len(tl[<<"ret", p>>].elems) = Expected(A, B)
              /\ tl[<<"ret", p>>].lastDepth = 0

C7_Witness ==
    /\ A >= 1
    /\ B >= 1
    /\ pc[1] = "f2_chk"
    /\ pc[2] = "in_dtor"
    /\ Len(tl[<<"tls", 2>>].elems) >= 3

-----------------------------------------------------------------------------
(* SpecMid: export_in_the_middle_test, for any sequence of arguments of    *)
(* func_2.  The main thread (0) runs it; the clock advances with every     *)
(* monitor operation, so that the timestamp of an event tells when it was  *)
(* appended.                                                               *)

Main == 0

\* loc[Main].args: the do_middle_export arguments of the func_2 calls made so
\* far; history: closedLast / closedPrev are the times at which the outermost
\* scope of the last chain and of the chain before it were finalized
DoMiddleExport == loc[Main].args[Len(loc[Main].args)]

InitMid ==
    /\ InitCommon
    /\ pc = [p \in Procs |-> IF p = Main THEN "t_call" ELSE "idle"]
    /\ loc = [p \in Procs |-> [args |-> <<>>, closedLast |-> -1, closedPrev |-> -1]]
    /\ A = 1
    /\ B = 1

Tick == clock' = clock + 1

\* history: the outermost scope of the current chain is finalized now
ChainCloses ==
    loc' = [loc EXCEPT ![Main].closedPrev = loc[Main].closedLast,
                       ![Main].closedLast = clock]

\* timeline_monitor::Timeline ret; ... func_2(true); ... func_2(false);
MidCall(d) ==
    /\ pc[Main] = "t_call"
    /\ Len(loc[Main].args) < MaxChains
    /\ loc' = [loc EXCEPT ![Main].args = Append(@, d)]
    /\ tl' = IF loc[Main].args = <<>>
             THEN [tl EXCEPT ![<<"ret", Main>>] = Timeline]
             ELSE tl
    /\ Goto(Main, "m2_ctor")
    /\ UNCHANGED <<mon, stack, A, B, ea, clock, lastOp, hist, issuedLog, writers>>

\* func_2: T_MONITOR_FUNC()
MidFunc2Enter ==
    /\ pc[Main] = "m2_ctor"
    /\ MonitorEnter(Main, FuncName)
    /\ Tick
    /\ Goto(Main, "m1_ctor")
    /\ UNCHANGED <<mon, loc, A, B, ea, hist>>

\* func_1: T_MONITOR_FUNC()
MidFunc1Enter ==
    /\ pc[Main] = "m1_ctor"
    /\ MonitorEnter(Main, FuncName)
    /\ Tick
    /\ Goto(Main, "mi_ctor")
    /\ UNCHANGED <<mon, loc, A, B, ea, hist>>

\* func_1: { T_MONITOR_BLOCK("func_1_inner");
MidInnerEnter ==
    /\ pc[Main] = "mi_ctor"
    /\ MonitorEnter(Main, InnerName)
    /\ Tick
    /\ Goto(Main, "mi_dtor")
    /\ UNCHANGED <<mon, loc, A, B, ea, hist>>

\* func_1: }  if (do_middle_export)
MidInnerLeave ==
    /\ pc[Main] = "mi_dtor"
    /\ MonitorLeave(Main)
    /\ Tick
    /\ Goto(Main, IF DoMiddleExport THEN "m1_exp" ELSE "m1_ret")
    /\ UNCHANGED <<mon, loc, A, B, ea, hist>>

\* func_1: ret = T_MONITOR_EXPORT()
MidFunc1Export ==
    /\ pc[Main] = "m1_exp"
    /\ MonitorExport(Main, <<"ret", Main>>)
    /\ Tick
    /\ Goto(Main, "m1_ret")
    /\ UNCHANGED <<mon, loc, A, B, ea, hist>>

\* func_1 returns; func_2: if (!do_middle_export)
MidFunc1Leave ==
    /\ pc[Main] = "m1_ret"
    /\ MonitorLeave(Main)
    /\ Tick
    /\ Goto(Main, IF DoMiddleExport THEN "m2_ret" ELSE "m2_exp")
    /\ UNCHANGED <<mon, loc, A, B, ea, hist>>

\* func_2: ret = T_MONITOR_EXPORT()
MidFunc2Export ==
    /\ pc[Main] = "m2_exp"
    /\ MonitorExport(Main, <<"ret", Main>>)
    /\ ChainCloses
    /\ Tick
    /\ Goto(Main, "m2_ret")
    /\ UNCHANGED <<mon, A, B, ea, hist>>

\* func_2 returns
MidFunc2Leave ==
    /\ pc[Main] = "m2_ret"
    /\ MonitorLeave(Main)
    /\ IF Top(Main).done THEN UNCHANGED loc ELSE ChainCloses
    /\ Tick
    /\ Goto(Main, "t_chk")
    /\ UNCHANGED <<mon, A, B, ea, hist>>

\* CHK_EQ( 5, ret.getElems().size() ); CHK_EQ( 1, ret.getDepth() ); resp. 6, 0
MidCheck ==
    /\ pc[Main] = "t_chk"
    /\ Goto(Main, "t_call")
    /\ UNCHANGED <<tl, mon, stack, loc, A, B, ea, clock, lastOp, hist, issuedLog, writers>>

NextMid ==
    \/ \E d \in BOOLEAN : MidCall(d)
    \/ MidFunc2Enter
    \/ MidFunc1Enter
    \/ MidInnerEnter
    \/ MidInnerLeave
    \/ MidFunc1Export
    \/ MidFunc1Leave
    \/ MidFunc2Export
    \/ MidFunc2Leave
    \/ MidCheck

SpecMid == InitMid /\ [][NextMid]_vars

\* C4: events of a finished chain never appear in a later export.  After
\* each of the chains run one after another, the exported copy holds only
\* events appended after the outermost scope of the previous chain was
\* closed: 5 events when the export was made from the inner function scope,
\* 6 when it was made from the outer scope.
C4_NoEventsOfFinishedChains ==
    pc[Main] = "t_chk" =>
        LET R == tl[<<"ret", Main>>]
        IN  /\ \A i \in 1 .. Len(R.elems) :
                  R.elems[i].timestamp > loc[Main].closedPrev
            /\ Len(R.elems) = IF DoMiddleExport THEN 5 ELSE 6

C4_Witness ==
    /\ pc[Main] = "t_chk"
    /\ loc[Main].args = <<TRUE, FALSE>>
    /\ loc[Main].closedPrev >= 0
    /\ Len(tl[<<"ret", Main>>].elems) = 6

-----------------------------------------------------------------------------
(* SpecTransfer: thread_transfer_test.  The main thread (0) exports its    *)
(* timeline into a shared Timeline and starts the first hand-off thread;   *)
(* hand-off thread p (depth p - 1) opens a scope on the shared timeline,   *)
(* starts the next thread or signals completion, and closes its scope.     *)

Handoffs == 1 .. NumHandoff

\* std::shared_ptr<Timeline> ret / src
Shared == <<"ret", Main>>

InitTransfer ==
    /\ InitCommon
    /\ pc = [p \in Procs |-> IF p = Main THEN "x2_ctor" ELSE "idle"]
    /\ loc = [p \in Procs |-> [depth |-> 0]]
    /\ A = 0
    /\ B = 0

\* func_2: T_MONITOR_FUNC()
XferFunc2Enter ==
    /\ pc[Main] = "x2_ctor"
    /\ MonitorEnter(Main, FuncName)
    /\ Goto(Main, "x2_export")
    /\ UNCHANGED <<mon, loc, A, B, ea, clock, hist>>

\* func_2: ret = std::make_shared<Timeline>( T_MONITOR_EXPORT() )
XferFunc2Export ==
    /\ pc[Main] = "x2_export"
    /\ MonitorExport(Main, Shared)
    /\ Goto(Main, "x2_spawn")
    /\ UNCHANGED <<mon, loc, A, B, ea, clock, hist>>

\* func_2: std::thread t(func_1, ret, 0); t.detach()
XferFunc2Spawn ==
    /\ pc[Main] = "x2_spawn"
    /\ pc' = [pc EXCEPT ![Main] = "x2_wait", ![1] = "h_init"]
    /\ loc' = [loc EXCEPT ![1].depth = 0]
    /\ UNCHANGED <<tl, mon, stack, A, B, ea, clock, lastOp, hist, issuedLog, writers>>

\* func_2: ea.wait()
XferFunc2Wait ==
    /\ pc[Main] = "x2_wait"
    /\ ea
    /\ Goto(Main, "x2_ret")
    /\ UNCHANGED <<tl, mon, stack, loc, A, B, ea, clock, lastOp, hist, issuedLog, writers>>

\* func_2: return ret
XferFunc2Leave ==
    /\ pc[Main] = "x2_ret"
    /\ MonitorLeave(Main)
    /\ Goto(Main, "x_chk")
    /\ UNCHANGED <<mon, loc, A, B, ea, clock, hist>>

\* CHK_EQ( 24, ret->getElems().size() ); CHK_EQ( 0, ret->getDepth() )
XferCheck ==
    /\ pc[Main] = "x_chk"
    /\ Goto(Main, "x_done")
    /\ UNCHANGED <<tl, mon, stack, loc, A, B, ea, clock, lastOp, hist, issuedLog, writers>>

\* func_1: T_MONITOR_FUNC_CUSTOM(*src), member initialisers (issueId)
HandoffInit(p) ==
    /\ pc[p] = "h_init"
    /\ LET c == MonitorInit(Shared, tl[Shared], FuncName)
       IN  /\ tl' = [tl EXCEPT ![Shared] = c.tl]
           /\ stack' = [stack EXCEPT ![p] = Append(@, c.mon)]
           /\ issuedLog' = [issuedLog EXCEPT ![Shared] = Append(@, c.mon.myId)]
           /\ lastOp' = Op("issue", p, c.mon, tl[Shared], NoTimeline)
    /\ Goto(p, "h_begin")
    /\ UNCHANGED <<mon, loc, A, B, ea, clock, hist, writers>>

\* func_1: T_MONITOR_FUNC_CUSTOM(*src), constructor body (pushBegin)
HandoffBegin(p) ==
    /\ pc[p] = "h_begin"
    /\ tl' = [tl EXCEPT ![Shared] = MonitorBody(Top(p), tl[Shared], clock)]
    /\ writers' = [writers EXCEPT ![Shared] = @ \cup {p}]
    /\ lastOp' = Op("ctor", p, Top(p), tl[Shared], NoTimeline)
    /\ Goto(p, "h_body")
    /\ UNCHANGED <<mon, stack, loc, A, B, ea, clock, hist, issuedLog>>

\* func_1: if (depth < 10) { std::thread t(func_1, src, depth + 1); t.detach(); }
\*         else { ea.invoke(); }
HandoffBody(p) ==
    /\ pc[p] = "h_body"
    /\ IF loc[p].depth < NumHandoff - 1
       THEN /\ pc' = [pc EXCEPT ![p] = "h_dtor", ![p + 1] = "h_init"]
            /\ loc' = [loc EXCEPT ![p + 1].depth = loc[p].depth + 1]
            /\ UNCHANGED ea
       ELSE /\ ea' = TRUE
            /\ Goto(p, "h_dtor")
            /\ UNCHANGED loc
    /\ UNCHANGED <<tl, mon, stack, A, B, clock, lastOp, hist, issuedLog, writers>>

\* func_1 returns: its monitor is destroyed (pushEnd)
HandoffLeave(p) ==
    /\ pc[p] = "h_dtor"
    /\ MonitorLeave(p)
    /\ Goto(p, "h_done")
    /\ UNCHANGED <<mon, loc, A, B, ea, clock, hist>>

NextTransfer ==
    \/ XferFunc2Enter
    \/ XferFunc2Export
    \/ XferFunc2Spawn
    \/ XferFunc2Wait
    \/ XferFunc2Leave
    \/ XferCheck
    \/ \E p \in Handoffs : HandoffInit(p)
    \/ \E p \in Handoffs : HandoffBegin(p)
    \/ \E p \in Handoffs : HandoffBody(p)
    \/ \E p \in Handoffs : HandoffLeave(p)

SpecTransfer == InitTransfer /\ [][NextTransfer]_vars

AllHandoffsClosed == \A p \in Handoffs : pc[p] = "h_done"

\* C8: when an exported timeline holding the Begin and End of one closed
\* top-level scope is continued by a chain of k hand-off threads (pushBegin
\* and pushEnd each one step), no hand-off End clears the timeline, and once
\* all hand-off scopes have closed it holds exactly 2*(1 + k) events and its
\* nesting depth is 0.
C8_HandoffChainCount ==
    /\ (lastOp.op = "dtor" /\ lastOp.by \in Handoffs) =>
          /\ Len(tl[Shared].elems) = Len(lastOp.pre.elems) + 1
          /\ SubSeq(tl[Shared].elems, 1, Len(lastOp.pre.elems)) = lastOp.pre.elems
    /\ AllHandoffsClosed =>
          /\ Len(getElems(tl[Shared])) = 2 * (1 + NumHandoff)
          /\ getDepth(tl[Shared]) = 0

C8_Witness ==
    /\ AllHandoffsClosed
    /\ lastOp.op = "dtor"
    /\ lastOp.by = 1
    /\ Len(tl[Shared].elems) >= 4

\* C9: when the main thread of the thread-transfer test has resumed from
\* waiting on the completion signal and reads the shared timeline, the
\* timeline holds 2*(1 + k) events (24 for the test's k = 11) and its
\* nesting depth is 0.
C9_MainReadsCompleteTimeline ==
    pc[Main] = "x_chk" =>
        /\ Len(getElems(tl[Shared])) = 2 * (1 + NumHandoff)
        /\ getDepth(tl[Shared]) = 0

-----------------------------------------------------------------------------
(* TimelineMonitor::getElapsedUs and TimelineDump::toString *)

\* variant: measures from the monitor's own Begin event
getElapsedUs_own(M, T, now) ==
    IF \E i \in 1 .. Len(T.elems) : T.elems[i].id = M.myId
    THEN now - T.elems[CHOOSE i \in 1 .. Len(T.elems) : T.elems[i].id = M.myId].timestamp
    ELSE 0

\* variant: measures from the last event (elems.rbegin()) instead of the first
getElapsedUs_last(M, T, now) ==
    IF T.elems = <<>> THEN 0 ELSE now - T.elems[Len(T.elems)].timestamp

\* TimelineMonitor::getElapsedUs() const, T = the bound timeline
getElapsedUs(M, T, now) ==
    IF getElems(T) = <<>> THEN 0 ELSE now - Head(getElems(T)).timestamp

\* The stringstream of toString is a sequence of pieces: std::endl, or the
\* text of one `<<` chain: std::string(depth, ' '), the name and the numbers
\* that follow it.
Endl == [endl |-> TRUE]
Text(d, n, nums) == [indent |-> d, name |-> n, nums |-> nums]

\* variant: the line break before a piece is never written
Emit_noEndl(st, piece) == st.ret \o <<piece>>

\* the piece(s) one `if (need_endl) ... ret << ...` block appends
Emit(st, piece) ==
    (IF st.need_endl THEN Append(st.ret, Endl) ELSE st.ret) \o <<piece>>

\* variant: an End event without Begin is printed with its own name and depth
toString_printsOrphans(src) ==
    LET elems == src.elems
        F[i \in 0 .. Len(elems)] ==
            IF i = 0
            THEN [ret |-> <<>>, begin_elems |-> <<>>, need_endl |-> FALSE]
            ELSE LET st == F[i - 1]
                     cur == elems[i]
                 IN  IF cur.type = BEGIN
                     THEN [ret |-> Emit(st, Text(cur.depth, cur.timelineName,
                                                 <<cur.timestamp>>)),
                           begin_elems |->
                               IF cur.id \in DOMAIN st.begin_elems
                               THEN st.begin_elems
                               ELSE st.begin_elems @@ (cur.id :> cur),
                           need_endl |-> TRUE]
                     ELSE LET b == IF cur.id \in DOMAIN st.begin_elems
                                   THEN st.begin_elems[cur.id] ELSE cur
                          IN  [ret |-> Emit(st, Text(b.depth, b.timelineName,
                                              <<cur.timestamp,
                                                cur.timestamp - b.timestamp>>)),
                               begin_elems |-> st.begin_elems,
                               need_endl |-> TRUE]
    IN  F[Len(elems)].ret

\* TimelineDump::toString(const Timeline& src); F[i] is the state of the loop
\* after i elements: the stream, the map begin_elems, need_endl
toString(src) ==
    LET elems == getElems(src)
        F[i \in 0 .. Len(elems)] ==
            IF i = 0
            THEN [ret |-> <<>>, begin_elems |-> <<>>, need_endl |-> FALSE]
            ELSE LET st == F[i - 1]
                     cur == elems[i]
                 IN  IF cur.type = BEGIN
                     THEN [ret |-> Emit(st, Text(cur.depth, cur.timelineName,
                                                 <<cur.timestamp>>)),
                           \* unordered_map::insert keeps an existing entry
                           begin_elems |->
                               IF cur.id \in DOMAIN st.begin_elems
                               THEN st.begin_elems
                               ELSE st.begin_elems @@ (cur.id :> cur),
                           need_endl |-> TRUE]
                     ELSE IF cur.id \notin DOMAIN st.begin_elems
                     THEN st
                     ELSE LET b == st.begin_elems[cur.id]
                          IN  [ret |-> Emit(st, Text(b.depth, b.timelineName,
                                              <<cur.timestamp,
                                                cur.timestamp - b.timestamp>>)),
                               begin_elems |-> st.begin_elems,
                               need_endl |-> TRUE]
    IN  F[Len(elems)].ret

\* number of lines of the text a stream holds
NumLines(out) ==
    IF out = <<>> THEN 0
    ELSE 1 + Cardinality({i \in 1 .. Len(out) : out[i] = Endl})

-----------------------------------------------------------------------------
(* SpecNest: one thread (0) that opens and closes properly nested scopes   *)
(* on its thread-local timeline, in any shape: it enters a scope, leaves   *)
(* the innermost one, exports from the innermost one (at most once per     *)
(* monitor), asks any monitor in scope for the elapsed time and dumps the  *)
(* exported timeline, while the clock advances.                            *)

\* scopes the thread opens in all
MaxScopes == 3
\* the clock runs from 0 to MaxClock
MaxClock == 1

\* number of monitors of thread p that are in scope and not finalized
OpenCount(p) == Cardinality({i \in 1 .. Len(stack[p]) : ~stack[p][i].done})

\* loc[Main] holds history only: n = scopes opened so far, chainStart = the time the first scope of the current chain was
\* opened, chainScopes = scopes opened in the current chain, midExport = a
\* scope other than the outermost one exported in the current chain,
\* exported = exportTimeline was called on the timeline, last = per monitor
\* in scope, the value its last getElapsedUs call returned (-1: none) and
\* the number of events the timeline held then,
\* retScopes / retOuter / retMid = chainScopes, "the exporting scope was the
\* outermost one" and midExport at the last export
InitNest ==
    /\ InitCommon
    /\ pc = [p \in Procs |-> IF p = Main THEN "nest" ELSE "idle"]
    /\ loc = [p \in Procs |->
                [n |-> 0, chainStart |-> 0, chainScopes |-> 0, midExport |-> FALSE,
                 exported |-> FALSE, last |-> <<>>,
                 retScopes |-> 0, retOuter |-> FALSE, retMid |-> FALSE]]
    /\ A = 0
    /\ B = 0

\* { T_MONITOR_FUNC();
NestEnter ==
    /\ loc[Main].n < MaxScopes
    /\ MonitorEnter(Main, FuncName)
    /\ loc' = [loc EXCEPT
                  ![Main].n = @ + 1,
                  ![Main].chainStart = IF OpenCount(Main) = 0 THEN clock ELSE @,
                  ![Main].chainScopes = IF OpenCount(Main) = 0 THEN 1 ELSE @ + 1,
                  ![Main].midExport = IF OpenCount(Main) = 0 THEN FALSE ELSE @,
                  ![Main].last = Append(@, [value |-> -1, len |-> 0])]
    /\ UNCHANGED <<mon, pc, A, B, ea, clock, hist>>

\* }
NestLeave ==
    /\ stack[Main] # <<>>
    /\ MonitorLeave(Main)
    /\ loc' = [loc EXCEPT ![Main].last = SubSeq(@, 1, Len(@) - 1)]
    /\ UNCHANGED <<mon, pc, A, B, ea, clock, hist>>

\* Timeline ret = T_MONITOR_EXPORT();
NestExport ==
    /\ stack[Main] # <<>>
    /\ ~Top(Main).done
    /\ MonitorExport(Main, <<"ret", Main>>)
    /\ loc' = [loc EXCEPT
                  ![Main].exported = TRUE,
                  ![Main].midExport = @ \/ OpenCount(Main) > 1,
                  ![Main].retScopes = loc[Main].chainScopes,
                  ![Main].retOuter = (OpenCount(Main) = 1),
                  ![Main].retMid = loc[Main].midExport]
    /\ UNCHANGED <<mon, pc, A, B, ea, clock, hist>>

\* getElapsedUs() of the i-th monitor in scope
NestElapsed(i) ==
    /\ i \in 1 .. Len(stack[Main])
    /\ LET M == stack[Main][i]
           v == getElapsedUs(M, tl[M.timelineRef], clock)
       IN  /\ lastOp' = Op("elapsed", Main, M, tl[M.timelineRef],
                           [value |-> v, prev |-> loc[Main].last[i], at |-> i,
                            now |-> clock])
           /\ loc' = [loc EXCEPT ![Main].last[i] =
                         [value |-> v, len |-> Len(tl[M.timelineRef].elems)]]
    /\ UNCHANGED <<tl, mon, stack, pc, A, B, ea, clock, hist, issuedLog, writers>>

\* TimelineDump::toString(ret)
NestDump ==
    /\ tl[<<"ret", Main>>] # NoTimeline
    /\ lastOp.op # "dump"
    /\ lastOp' = Op("dump", Main, NoMon, tl[<<"ret", Main>>],
                     [out |-> toString(tl[<<"ret", Main>>])])
    /\ UNCHANGED <<tl, mon, stack, pc, loc, A, B, ea, clock, hist, issuedLog, writers>>

\* time passes
NestTick ==
    /\ clock < MaxClock
    /\ clock' = clock + 1
    /\ UNCHANGED <<tl, mon, stack, pc, loc, A, B, ea, lastOp, hist, issuedLog, writers>>

NextNest ==
    \/ NestEnter
    \/ NestLeave
    \/ NestExport
    \/ \E i \in 1 .. MaxScopes : NestElapsed(i)
    \/ NestDump
    \/ NestTick

SpecNest == InitNest /\ [][NextNest]_vars

\* the timelines of SpecNest that hold an object
NestTimelines ==
    {r \in {<<"tls", Main>>, <<"ret", Main>>} : tl[r] # NoTimeline}

\* C11: with properly nested scopes written by one thread, every Begin event
\* records as depth the number of scopes open just before it, and every End
\* event records the depth of the Begin event with the same id.
C11_DepthsMatchNesting ==
    /\ lastOp.op = "ctor" =>
          LET e == tl[lastOp.mon.timelineRef].elems
          IN  /\ e[Len(e)].type = BEGIN
              /\ e[Len(e)].id = lastOp.mon.myId
              /\ e[Len(e)].depth = OpenCount(Main) - 1
    /\ \A r \in NestTimelines :
          \A j \in 1 .. Len(tl[r].elems) :
             tl[r].elems[j].type = END =>
                \E i \in 1 .. (j - 1) :
                   /\ tl[r].elems[i].type = BEGIN
                   /\ tl[r].elems[i].id = tl[r].elems[j].id
                   /\ tl[r].elems[i].depth = tl[r].elems[j].depth

\* a third scope is opened at depth 1 after a sibling at depth 1 was closed
C11_Witness ==
    /\ lastOp.op = "ctor"
    /\ OpenCount(Main) = 2
    /\ \E j \in 1 .. Len(tl[<<"tls", Main>>].elems) :
          /\ tl[<<"tls", Main>>].elems[j].type = END
          /\ tl[<<"tls", Main>>].elems[j].depth = 1

\* the Begin event of monitor M in the list elems
BeginOf(elems, M) ==
    elems[CHOOSE i \in 1 .. Len(elems) :
             elems[i].type = BEGIN /\ elems[i].id = M.myId]

\* C12: the timeline exportTimeline returns has as nesting depth the depth of
\* the exporting monitor's Begin event, which is the number of scopes still
\* open on the source: 1 for an export one level below the outermost scope,
\* 0 for an export from the outermost scope.
C12_ExportedDepth ==
    lastOp.op = "export" =>
       /\ getDepth(lastOp.ret) = BeginOf(getElems(lastOp.ret), lastOp.mon).depth
       /\ getDepth(lastOp.ret) = OpenCount(Main)
       /\ getDepth(tl[lastOp.mon.timelineRef]) = OpenCount(Main)
       /\ loc[Main].retOuter => getDepth(lastOp.ret) = 0
       /\ BeginOf(getElems(lastOp.ret), lastOp.mon).depth = 1 => getDepth(lastOp.ret) = 1

\* an export one level below the outermost scope returned a timeline
C12_Witness ==
    /\ lastOp.op = "export"
    /\ ~loc[Main].retOuter
    /\ OpenCount(Main) = 1
    /\ getDepth(lastOp.ret) = 1

\* C15: getElapsedUs returns 0 when the bound timeline holds no event, and
\* otherwise the time since the first event, which is the Begin event of the
\* outermost scope of the current chain; neither the timeline nor the monitor
\* changes.
C15_ElapsedSinceFirstEvent ==
    lastOp.op = "elapsed" =>
       /\ lastOp.pre.elems = <<>> => lastOp.ret.value = 0
       /\ lastOp.pre.elems # <<>> =>
             /\ lastOp.ret.value = lastOp.ret.now - Head(lastOp.pre.elems).timestamp
             /\ Head(lastOp.pre.elems).type = BEGIN
             /\ Head(lastOp.pre.elems).depth = 0
       /\ lastOp.ret.value =
             IF OpenCount(Main) = 0 THEN 0
             ELSE lastOp.ret.now - loc[Main].chainStart
       /\ tl[lastOp.mon.timelineRef] = lastOp.pre
       /\ stack[Main][lastOp.ret.at] = lastOp.mon

\* a nested monitor whose own Begin is later than the chain's first event
\* was asked
C15_Witness ==
    /\ lastOp.op = "elapsed"
    /\ lastOp.ret.at > 1
    /\ ~lastOp.mon.done
    /\ BeginOf(lastOp.pre.elems, lastOp.mon).timestamp > loc[Main].chainStart
    /\ lastOp.ret.value = 1

\* C16: before any export on the timeline, successive getElapsedUs calls on a
\* monitor return non-negative, non-decreasing values whatever scopes were
\* opened and closed in between; on an empty timeline the call returns 0.
C16_ElapsedMonotone ==
    lastOp.op = "elapsed" =>
       /\ ~loc[Main].exported =>
             /\ lastOp.ret.value >= 0
             /\ lastOp.ret.value >= lastOp.ret.prev.value
       /\ lastOp.pre.elems = <<>> => lastOp.ret.value = 0

\* a second call on a monitor, after a nested scope was opened and closed
\* and time passed since the first call
C16_Witness ==
    /\ lastOp.op = "elapsed"
    /\ ~loc[Main].exported
    /\ lastOp.ret.prev.value >= 0
    /\ Len(lastOp.pre.elems) >= lastOp.ret.prev.len + 2
    /\ lastOp.pre.elems[Len(lastOp.pre.elems)].type = END
    /\ lastOp.ret.value > lastOp.ret.prev.value

\* getElapsedUs was called on a timeline that a reset left empty
C16_EmptyReached ==
    lastOp.op = "elapsed" /\ lastOp.pre.elems = <<>>

\* toString was applied to the timeline that the outermost scope of a chain
\* without mid-chain export returned
DumpOfWholeChain ==
    /\ lastOp.op = "dump"
    /\ loc[Main].retOuter
    /\ ~loc[Main].retMid

\* the pieces of a stream that are text
TextPieces(out) == {i \in 1 .. Len(out) : out[i] # Endl}

\* C17 as stated: the dump of a chain of N properly nested scopes without
\* mid-chain export, exported at the outermost scope, has exactly N lines, one
\* per scope.
C17_OneLinePerScope ==
    DumpOfWholeChain => NumLines(lastOp.ret.out) = loc[Main].retScopes

\* C17 amended: that dump has exactly 2N lines, for every scope one line
\* written at its Begin event (name, begin time) and one written at its End
\* event (name, end time, duration), both indented by the scope's depth.
C17_TwoLinesPerScope ==
    DumpOfWholeChain =>
       LET out == lastOp.ret.out
           elems == lastOp.pre.elems
       IN  /\ NumLines(out) = 2 * loc[Main].retScopes
           /\ Cardinality(TextPieces(out)) = Len(elems)
           /\ Len(elems) = 2 * loc[Main].retScopes
           /\ \A k \in 1 .. Len(elems) :
                 LET piece == out[2 * k - 1]
                 IN  /\ piece # Endl
                     /\ piece.indent = elems[k].depth
                     /\ Len(piece.nums) = IF elems[k].type = BEGIN THEN 1 ELSE 2

\* a chain of three scopes was dumped
C17_Witness ==
    /\ DumpOfWholeChain
    /\ loc[Main].retScopes = 3
    /\ lastOp.ret.out # <<>>

-----------------------------------------------------------------------------
(* Properties of pushEndAndExport (SpecApi) *)

FirstIdAfterEnd(op) ==
    IF op.pre.elems = <<>> THEN op.mon.myId ELSE Head(op.pre.elems).id

C13_CopyAndSourceIndependent ==
    [][\A m \in MonIds :
          hist'[m] # hist[m] =>
             \A x \in TlIds :
                (x # hist'[m].on /\ tl[x] # NoTimeline) => tl'[x] = tl[x]]_vars

\* after an export from the first thread's timeline, a monitor was created
\* on the copy and then one on the source: each issued the same id on its own
C13_Witness ==
    /\ lastOp.op = "ctor"
    /\ lastOp.mon.timelineRef = <<"tls", 1>>
    /\ tl[<<"cust", 1>>] # NoTimeline
    /\ tl[<<"cust", 2>>] = NoTimeline
    /\ tl[<<"tls", 2>>].eventIdCounter = 0
    /\ tl[<<"cust", 1>>].eventIdCounter = 2
    /\ tl[<<"tls", 1>>].eventIdCounter = 2
    /\ Len(tl[<<"cust", 1>>].elems) = 3
    /\ Len(tl[<<"tls", 1>>].elems) = 1

-----------------------------------------------------------------------------
(* SpecDump: a client of the public Timeline interface that calls pushBegin *)
(* and pushEnd with ids of its choice, in any order, and renders the        *)
(* timeline with TimelineDump::toString.                                    *)

\* events the client pushes in all
MaxEvents == 4
\* the client picks ids from 0 .. MaxDumpId
MaxDumpId == 1

DumpIds == 0 .. MaxDumpId

\* the Timeline object the client works on
DumpSubject == <<"tls", Main>>

InitDump ==
    /\ InitCommon
    /\ pc = [p \in Procs |-> IF p = Main THEN "dump" ELSE "idle"]
    /\ loc = [p \in Procs |-> [n |-> 0]]
    /\ A = 0
    /\ B = 0

\* timeline.pushBegin(name, id)
DumpPushBegin(id) ==
    /\ loc[Main].n < MaxEvents
    /\ tl' = [tl EXCEPT ![DumpSubject] = pushBegin(@, FuncName, id, clock)]
    /\ lastOp' = Op("pushBegin", Main, NoMon, tl[DumpSubject], NoTimeline)
    /\ loc' = [loc EXCEPT ![Main].n = @ + 1]
    /\ UNCHANGED <<mon, stack, pc, A, B, ea, clock, hist, issuedLog, writers>>

\* timeline.pushEnd(name, id)
DumpPushEnd(id) ==
    /\ loc[Main].n < MaxEvents
    /\ tl' = [tl EXCEPT ![DumpSubject] = pushEnd(@, FuncName, id, clock)]
    /\ lastOp' = Op("pushEnd", Main, NoMon, tl[DumpSubject], NoTimeline)
    /\ loc' = [loc EXCEPT ![Main].n = @ + 1]
    /\ UNCHANGED <<mon, stack, pc, A, B, ea, clock, hist, issuedLog, writers>>

\* TimelineDump::toString(timeline)
DumpToString ==
    /\ lastOp.op # "dump"
    /\ lastOp' = Op("dump", Main, NoMon, tl[DumpSubject],
                    [out |-> toString(tl[DumpSubject])])
    /\ UNCHANGED <<tl, mon, stack, pc, loc, A, B, ea, clock, hist, issuedLog, writers>>

NextDump ==
    \/ \E id \in DumpIds : DumpPushBegin(id)
    \/ \E id \in DumpIds : DumpPushEnd(id)
    \/ DumpToString
    \/ NestTick

SpecDump == InitDump /\ [][NextDump]_vars

\* the j-th event is an End event and no earlier Begin event has its id
IsOrphan(elems, j) ==
    /\ elems[j].type = END
    /\ ~\E i \in 1 .. (j - 1) : elems[i].type = BEGIN /\ elems[i].id = elems[j].id

\* the timeline T without its orphaned End events
RemoveOrphans(T) ==
    LET Keep[k \in 0 .. Len(T.elems)] ==
            IF k = 0 THEN <<>>
            ELSE IF IsOrphan(T.elems, k) THEN Keep[k - 1]
            ELSE Append(Keep[k - 1], T.elems[k])
    IN  [T EXCEPT !.elems = Keep[Len(T.elems)]]

\* C18: toString writes nothing for an End event whose id has no earlier
\* Begin event: the output is the output for the same sequence without those
\* End events, with one piece of text per remaining event, and the timeline
\* it was given is unchanged.
C18_OrphanedEndsSkipped ==
    lastOp.op = "dump" =>
       /\ lastOp.ret.out = toString(RemoveOrphans(lastOp.pre))
       /\ Cardinality(TextPieces(lastOp.ret.out))
             = Len(RemoveOrphans(lastOp.pre).elems)
       /\ tl[DumpSubject] = lastOp.pre

\* a timeline with an orphaned End event followed by a matched one was dumped
C18_Witness ==
    /\ lastOp.op = "dump"
    /\ \E j \in 1 .. Len(lastOp.pre.elems) :
          /\ IsOrphan(lastOp.pre.elems, j)
          /\ \E k \in (j + 1) .. Len(lastOp.pre.elems) :
                /\ lastOp.pre.elems[k].type = END
                /\ ~IsOrphan(lastOp.pre.elems, k)

-----------------------------------------------------------------------------
(* SpecLiteral: hierarchical_test, the nested-call pattern of SpecHier on   *)
(* one thread with the sizes the test uses.                                 *)

\* const size_t A = 5;
LitA == 5
\* const size_t B = 10;
LitB == 10

InitLiteral ==
    /\ InitCommon
    /\ pc = [p \in Procs |-> IF p = 1 THEN "w_loop" ELSE "idle"]
    /\ loc = [p \in Procs |-> [ii |-> 0, jj |-> 0, calls |-> 0]]
    /\ A = LitA
    /\ B = LitB

NextLiteral == HierStep(1)

SpecLiteral == InitLiteral /\ [][NextLiteral]_vars

\* C19 as stated: with A = 5 inner blocks per function call and B = 10
\* function calls, the timeline the top-level export returns holds 330 events
\* and has depth 0.
C19_LiteralCount330 ==
    pc[1] = "f2_chk" =>
       /\ A = 5
       /\ B = 10
       /\ Len(getElems(tl[<<"ret", 1>>])) = 330
       /\ getDepth(tl[<<"ret", 1>>]) = 0

\* C19 amended: with A = 5 and B = 10 the timeline the top-level export
\* returns holds 2*(1 + 10 + 5*10) = 122 events: 2 of func_2, 20 of the
\* func_1 calls and 100 of the inner blocks; its depth is 0.
C19_LiteralCount122 ==
    pc[1] = "f2_chk" =>
       LET elems == getElems(tl[<<"ret", 1>>])
       IN  /\ A = 5
           /\ B = 10
           /\ Len(elems) = 122
           /\ Cardinality({i \in 1 .. Len(elems) : elems[i].depth = 0}) = 2
           /\ Cardinality({i \in 1 .. Len(elems) : elems[i].depth = 1}) = 20
           /\ Cardinality({i \in 1 .. Len(elems) : elems[i].depth = 2}) = 100
           /\ getDepth(tl[<<"ret", 1>>]) = 0

\* the export of func_2 returned after 10 calls of func_1 with 5 blocks each
C19_Witness ==
    /\ pc[1] = "f2_chk"
    /\ lastOp.op = "export"
    /\ loc[1].jj = LitB
    /\ Len(lastOp.pre.elems) = 121
    /\ tl[<<"tls", 1>>].elems = <<>>

-----------------------------------------------------------------------------
(* SpecRace: thread_transfer_test with the calls into the shared Timeline   *)
(* in two steps each: a thread enters issueId, pushBegin or pushEnd, and    *)
(* later returns from it.  Timeline has no lock, so other threads run in    *)
(* between.                                                                 *)

\* the pc values of a thread that is inside a mutating member function of
\* the shared timeline
InsideOps == {"in_issueId", "in_pushBegin", "in_pushEnd"}

Inside(p) == pc[p] \in InsideOps

\* What an unsynchronised member function may work on when it ran while the
\* object changed under it: the object as it is, the object with the scalar
\* members as they were when the call started, or the object as it was when
\* the call started.
Views(cur, seen) ==
    {cur,
     [cur EXCEPT !.eventIdCounter = seen.eventIdCounter,
                 !.lastDepth = seen.lastDepth],
     seen}

InitRace ==
    /\ InitCommon
    /\ pc = [p \in Procs |-> IF p = Main THEN "x2_ctor" ELSE "idle"]
    /\ loc = [p \in Procs |-> [depth |-> 0, seen |-> Timeline]]
    /\ A = 0
    /\ B = 0

\* hand-off thread p enters a member function of *src
RaceEnter(p, to) ==
    /\ Goto(p, to)
    /\ loc' = [loc EXCEPT ![p].seen = tl[Shared]]
    /\ UNCHANGED <<tl, mon, stack, A, B, ea, clock, lastOp, hist, issuedLog, writers>>

\* func_1: T_MONITOR_FUNC_CUSTOM(*src): myId(timeline.issueId()) is entered
RaceIssueCall(p) ==
    /\ pc[p] = "h_init"
    /\ RaceEnter(p, "in_issueId")

\* issueId returns
RaceIssueRet(p) ==
    /\ pc[p] = "in_issueId"
    /\ \E v \in Views(tl[Shared], loc[p].seen) :
          LET c == MonitorInit(Shared, v, FuncName)
          IN  /\ tl' = [tl EXCEPT ![Shared] = c.tl]
              /\ stack' = [stack EXCEPT ![p] = Append(@, c.mon)]
              /\ issuedLog' = [issuedLog EXCEPT ![Shared] = Append(@, c.mon.myId)]
              /\ lastOp' = Op("issue", p, c.mon, tl[Shared], NoTimeline)
    /\ Goto(p, "h_begin")
    /\ UNCHANGED <<mon, loc, A, B, ea, clock, hist, writers>>

\* the constructor body enters timelineRef.pushBegin(myName, myId)
RaceBeginCall(p) ==
    /\ pc[p] = "h_begin"
    /\ RaceEnter(p, "in_pushBegin")

\* pushBegin returns
RaceBeginRet(p) ==
    /\ pc[p] = "in_pushBegin"
    /\ \E v \in Views(tl[Shared], loc[p].seen) :
          tl' = [tl EXCEPT ![Shared] = MonitorBody(Top(p), v, clock)]
    /\ writers' = [writers EXCEPT ![Shared] = @ \cup {p}]
    /\ lastOp' = Op("ctor", p, Top(p), tl[Shared], NoTimeline)
    /\ Goto(p, "h_body")
    /\ UNCHANGED <<mon, stack, loc, A, B, ea, clock, hist, issuedLog>>

\* func_1 returns: ~TimelineMonitor enters timelineRef.pushEnd(myName, myId)
RaceEndCall(p) ==
    /\ pc[p] = "h_dtor"
    /\ RaceEnter(p, "in_pushEnd")

\* pushEnd returns, the destructor sets done
RaceEndRet(p) ==
    /\ pc[p] = "in_pushEnd"
    /\ \E v \in Views(tl[Shared], loc[p].seen) :
          LET M == Top(p)
              r == Destructor(M, v, clock)
          IN  /\ DestroyOn(p, M, r)
              /\ stack' = [stack EXCEPT ![p] = SubSeq(@, 1, Len(@) - 1)]
    /\ Goto(p, "h_done")
    /\ UNCHANGED <<mon, loc, A, B, ea, clock, hist>>

NextRace ==
    \/ XferFunc2Enter
    \/ XferFunc2Export
    \/ XferFunc2Spawn
    \/ XferFunc2Wait
    \/ XferFunc2Leave
    \/ XferCheck
    \/ \E p \in Handoffs : RaceIssueCall(p)
    \/ \E p \in Handoffs : RaceIssueRet(p)
    \/ \E p \in Handoffs : RaceBeginCall(p)
    \/ \E p \in Handoffs : RaceBeginRet(p)
    \/ \E p \in Handoffs : HandoffBody(p)
    \/ \E p \in Handoffs : RaceEndCall(p)
    \/ \E p \in Handoffs : RaceEndRet(p)

SpecRace == InitRace /\ [][NextRace]_vars

\* C20: in the thread-transfer scenario no two threads are inside a mutating
\* operation (issueId, pushBegin, pushEnd) on the shared timeline at the same
\* time; in particular the closing pushEnd of a hand-off thread does not
\* overlap the pushBegin of the child thread it started.
C20_OneWriterAtATime ==
    /\ \A p, q \in Handoffs : (p # q /\ Inside(p)) => ~Inside(q)
    /\ \A p \in Handoffs :
          (p + 1 \in Handoffs /\ pc[p] = "in_pushEnd") => pc[p + 1] # "in_pushBegin"

-----------------------------------------------------------------------------
(* Depths in the shared timeline of thread_transfer_test (SpecTransfer) *)

\* the events of the shared timeline, once func_2 has created it
SharedElems == IF tl[Shared] = NoTimeline THEN <<>> ELSE getElems(tl[Shared])

\* C21: in the thread-transfer scenario, with every pushBegin and pushEnd
\* taken as one atomic step and under every interleaving of the hand-off
\* threads, every End event in the shared timeline records the same depth as
\* the Begin event with the same id.
C21_HandoffDepthsMatch ==
    \A j \in 1 .. Len(SharedElems) :
       SharedElems[j].type = END =>
          \A i \in 1 .. Len(SharedElems) :
             (SharedElems[i].type = BEGIN /\ SharedElems[i].id = SharedElems[j].id)
                => SharedElems[i].depth = SharedElems[j].depth

-----------------------------------------------------------------------------
(* Invariants of a timeline that was created empty (SpecApi) *)

\* the timelines created by Timeline(): the thread-local ones
CreatedEmpty == {thread_events(p) : p \in Threads}

\* the monitors constructed on timeline x
BoundTo(x) == {m \in MonIds : hist[m].st # "none" /\ hist[m].on = x}

\* the monitors on x that pushed no End event yet
OpenOn(x) == {m \in BoundTo(x) : hist[m].nend = 0}

\* no monitor on x pushed more than one End event
FinalizedAtMostOnce(x) == \A m \in BoundTo(x) : hist[m].nend <= 1

\* C22: on a timeline created empty on which every monitor is finalized at
\* most once, the nesting counter equals the number of monitors constructed
\* on it and not yet finalized, in whatever order they are finalized; so it
\* never wraps below 0, and a reset of the event list leaves it alone.
C22_DepthCountsOpenMonitors ==
    \A x \in CreatedEmpty :
       FinalizedAtMostOnce(x) =>
          /\ getDepth(tl[x]) = Cardinality(OpenOn(x))
          /\ getDepth(tl[x]) >= 0
          /\ (IsFinalizer(lastOp) /\ lastOp.mon.timelineRef = x /\ ~lastOp.mon.done) =>
                /\ lastOp.pre.lastDepth >= 1
                /\ getDepth(tl[x]) = lastOp.pre.lastDepth - 1

\* the monitor that opened the chain was destroyed before one it encloses:
\* the list was reset while a monitor is still open
C22_Witness ==
    /\ lastOp.op = "dtor"
    /\ lastOp.mon.timelineRef = <<"tls", 1>>
    /\ FinalizedAtMostOnce(<<"tls", 1>>)
    /\ Len(lastOp.pre.elems) >= 2
    /\ tl[<<"tls", 1>>].elems = <<>>
    /\ getDepth(tl[<<"tls", 1>>]) = 1

\* C23: on a timeline created empty on which every monitor is finalized at
\* most once, between operations the event list is empty or starts with the
\* Begin event of a monitor that is not finalized, also when monitors are
\* finalized out of LIFO order; it is empty whenever no monitor is open.
C23_FirstEventIsOpenBegin ==
    \A x \in CreatedEmpty :
       FinalizedAtMostOnce(x) =>
          /\ getElems(tl[x]) # <<>> =>
                /\ Head(getElems(tl[x])).type = BEGIN
                /\ \E m \in OpenOn(x) : mon[m].myId = Head(getElems(tl[x])).id
          /\ OpenOn(x) = {} => getElems(tl[x]) = <<>>

\* after an out-of-order reset a new chain was started and the older monitor
\* was destroyed inside it: the list starts with the Begin of the new chain
C23_Witness ==
    /\ lastOp.op = "dtor"
    /\ lastOp.mon.timelineRef = <<"tls", 1>>
    /\ FinalizedAtMostOnce(<<"tls", 1>>)
    /\ Len(tl[<<"tls", 1>>].elems) = 2
    /\ tl[<<"tls", 1>>].elems[2].type = END
    /\ tl[<<"tls", 1>>].elems[2].id < tl[<<"tls", 1>>].elems[1].id
    /\ Cardinality(OpenOn(<<"tls", 1>>)) = 1

-----------------------------------------------------------------------------
(* SpecPerThread: the client of SpecApi on src/src/timeline_monitor.h.     *)
(* That header has no Timeline::issueId: both constructors take the id     *)
(* from `static thread_local uint64_t event_id_counter(1)`.  Timeline,     *)
(* the destructor and exportTimeline are those of the other header; the    *)
(* field eventIdCounter of the Timeline record is not used and stays 0.    *)

\* the names the threads give their events, one per thread, so that an
\* event tells which thread appended it
PtNames == <<"thread_1", "thread_2", "thread_3", "thread_4">>

\* the thread whose name is n
PtThread(n) == CHOOSE p \in 1 .. Len(PtNames) : PtNames[p] = n

\* the value of thread p's event_id_counter
event_id_counter(p) == loc[p].event_id_counter

\* TimelineMonitor(Timeline& timeline, const char* name) of this header,
\* ctr = the caller's event_id_counter; mon: the monitor, tl: the timeline
\* after pushBegin, ctr: the counter after event_id_counter++
PtTimelineMonitorCustom(ref, T, name, ctr, now) ==
    LET M == [timelineRef |-> ref, myName |-> name, myId |-> ctr, done |-> FALSE]
    IN  [mon |-> M, tl |-> MonitorBody(M, T, now), ctr |-> ctr + 1]

\* TimelineMonitor(const char* name) of this header, executed by thread t
PtTimelineMonitor(t, name, ctr, now) ==
    PtTimelineMonitorCustom(thread_events(t), tl[thread_events(t)], name, ctr, now)

InitPerThread ==
    /\ InitCommon
    /\ pc = [p \in Procs |-> "api"]
    /\ loc = [p \in Procs |-> [event_id_counter |-> 1]]
    /\ A = 0
    /\ B = 0

\* TimelineMonitor m(name) executed by thread p
PtCtor(p, m) ==
    /\ mon[m] = NoMon
    /\ hist[m].st = "none"
    /\ \A k \in 1 .. (m - 1) : hist[k].st # "none"
    /\ LET r == PtTimelineMonitor(p, PtNames[p], event_id_counter(p), clock)
       IN  /\ ConstructOn(p, r.mon.timelineRef, r)
           /\ mon' = [mon EXCEPT ![m] = r.mon]
           /\ loc' = [loc EXCEPT ![p].event_id_counter = r.ctr]
    /\ hist' = [hist EXCEPT ![m].st = "live", ![m].by = p, ![m].on = <<"tls", p>>]
    /\ UNCHANGED <<stack, pc, A, B, ea, clock>>

\* TimelineMonitor m(timeline, name) on an exported timeline, by thread p
PtCtorCustom(p, m, s) ==
    /\ mon[m] = NoMon
    /\ hist[m].st = "none"
    /\ \A k \in 1 .. (m - 1) : hist[k].st # "none"
    /\ tl[<<"cust", s>>] # NoTimeline
    /\ LET ref == <<"cust", s>>
           r == PtTimelineMonitorCustom(ref, tl[ref], PtNames[p],
                                        event_id_counter(p), clock)
       IN  /\ ConstructOn(p, r.mon.timelineRef, r)
           /\ mon' = [mon EXCEPT ![m] = r.mon]
           /\ loc' = [loc EXCEPT ![p].event_id_counter = r.ctr]
    /\ hist' = [hist EXCEPT ![m].st = "live", ![m].by = p, ![m].on = <<"cust", s>>]
    /\ UNCHANGED <<stack, pc, A, B, ea, clock>>

NextPerThread ==
    \/ \E p \in Threads, m \in MonIds : PtCtor(p, m)
    \/ \E p \in Threads, m \in MonIds, s \in Slots : PtCtorCustom(p, m, s)
    \/ \E m \in MonIds : ApiDtor(m)
    \/ \E m \in MonIds, s \in Slots : ApiExport(m, s)

SpecPerThread == InitPerThread /\ [][NextPerThread]_vars

\* op finalizes, for the first time, a monitor on an exported timeline whose
\* first event was appended by another thread than the monitor's
HandoffScopeCloses(op) ==
    /\ IsFinalizer(op)
    /\ ~op.mon.done
    /\ op.mon.timelineRef[1] = "cust"
    /\ op.pre.elems # <<>>
    /\ PtThread(Head(op.pre.elems).timelineName) # PtThread(op.mon.myName)

\* C24: with ids taken from the per-thread counter that starts at 1, a
\* monitor constructed on a custom timeline by a thread other than the one
\* that appended the timeline's first event never has the id of that first
\* event, and closing it does not clear the timeline.
C24_HandoffIdDiffersFromFirst ==
    HandoffScopeCloses(lastOp) =>
       /\ lastOp.mon.myId # Head(lastOp.pre.elems).id
       /\ OpTl.elems # <<>>

====
